---- MODULE Spec2Model ----
(***************************************************************************)
(* Quota-aware scheduling and delivery core of the X-posts bot.            *)
(*                                                                         *)
(* Time is counted in ticks, TicksPerDay ticks to a calendar day.  The      *)
(* server's time zone is tz ticks east of UTC.  A worker's handler is      *)
(* split at its awaits: between two awaits of one handler any other        *)
(* handler, route or clock step may run.                                   *)
(***************************************************************************)
EXTENDS Integers, Sequences, FiniteSets, TLC

\* ---------------------------------------------------------------- bounds
MaxTime == 2
TicksPerDay == 2
MaxPosts == 1
MaxRows == 2
MaxGenerations == 22
MaxJobs == 3
MaxReschedules == 1
MaxImmediate == 1
MaxFirings == 1
MaxTweets == 2
MaxRuns == 2
MaxRestarts == 1
MaxRetryFirings == 2

\* ------------------------------------------------------ program constants
dailyTweetLimit == 17
ImmediateAttempts == 3
ScheduledAttempts == 5
None == -1
Epoch == -2
Null == "null"

TzOffsets == {0, 1}
InitCounts == {dailyTweetLimit - 1}

VARIABLES
    now,             \* the clock, in ticks (UTC)
    tz,              \* the server's offset east of UTC, in ticks
    redis,           \* the counter store: key -> [val, exp]
    redisUp,         \* whether the counter store answers
    rateLimitStatus, \* TwitterService.rateLimitStatus.daily
    posts,           \* table scheduled_tweets: id -> row
    history,         \* table tweet_history, in insertion order
    repeat,          \* repeatable triggers of the scheduled queue: id -> job data
    queue,           \* waiting jobs of each Bull queue
    wk,              \* the job each queue's processor is running, and where it is
    tweets,          \* remote posts accepted since the process started
    sent,            \* per UTC day, remote posts accepted (history variable)
    submitted,       \* immediate submissions accepted so far
    firings,         \* occurrences fired so far
    runs,            \* handler runs started so far
    restarts,        \* process restarts so far
    req,             \* the request a route is called with
    resp,            \* the answer to it
    credentials,     \* the Twitter keys the process is configured with
    files,           \* the temporary image files on disk
    previousTweets,  \* AIService.previousTweets, most recent first
    generated,       \* the last model output and what generateTweet made of it
    generations,     \* texts generated so far
    jobQueue,        \* the in-memory job queue of the interval scheduler
    isProcessing,    \* its flag
    timers,          \* pending setTimeout callbacks of the in-memory queue
    dequeued         \* the jobs processQueue has taken, in order, each with
                     \* how its run ended ("running" while it is under way)

vars == <<now, tz, redis, redisUp, rateLimitStatus, posts, history, repeat,
          queue, wk, tweets, sent, submitted, firings, runs, restarts, req,
          resp, credentials, files, previousTweets, generated, generations,
          jobQueue, isProcessing, timers, dequeued>>

\* ------------------------------------------------------------------ time
UTCDay(t) == t \div TicksPerDay
\* new Date().toDateString(): the calendar day in the server's local time
toDateString(t) == (t + tz) \div TicksPerDay
\* tomorrow.setUTCDate(+1); setUTCHours(0,0,0,0)
NextUTCMidnight(t) == (UTCDay(t) + 1) * TicksPerDay
\* the instant at which toDateString changes
NextLocalMidnight(t) == (toDateString(t) + 1) * TicksPerDay - tz
MaxDay == (MaxTime \div TicksPerDay) + 1
Days == 0..MaxDay
PostIds == 1..MaxRows
Workers == {"imm", "sch"}

\* ----------------------------------------------------------- error values
\* A message is a sequence of fragments; Needles(f) are the substrings the
\* handlers test for that fragment f contains.
Needles(f) ==
    CASE f = "Twitter API not configured. Please set Twitter API credentials in your .env file."
            -> {"credentials", "not configured", "Twitter API not configured"}
      [] f = "Twitter API credentials are invalid. Please check your API keys and tokens."
            -> {"credentials", "invalid", "Twitter API credentials are invalid"}
      [] f = "Twitter API rate limit exceeded. Please wait before posting again."
            -> {"rate limit", "Twitter API rate limit exceeded"}
      [] f = "Twitter API access forbidden. Please check your app permissions."
            -> {"Twitter API access forbidden"}
      [] f = "Request failed with code 429" -> {"Request failed with code 429"}
      [] f = "Daily rate limit reached" -> {"rate limit"}
      [] f = "AI service not configured. Please set GEMINI_API_KEY in your .env file."
            -> {"not configured"}
      [] f = "API_KEY_INVALID" -> {"API_KEY_INVALID"}
      [] f = "QUOTA_EXCEEDED" -> {"QUOTA_EXCEEDED"}
      [] f = "SAFETY" -> {"SAFETY"}
      [] OTHER -> {}

includes(msg, needle) == \E i \in 1..Len(msg) : needle \in Needles(msg[i])

Err(msg, code) == [message |-> msg, code |-> code]
NoError == Err(<<>>, None)

\* what client.v2.tweet rejects with (twitter-api-v2's ApiResponseError, or a
\* network error without a code)
RemoteErrors ==
    { Err(<<"Request failed with code 401">>, 401),
      Err(<<"Request failed with code 403">>, 403),
      Err(<<"Request failed with code 429">>, 429),
      Err(<<"Request failed with code 500">>, 500) }

RedisError == Err(<<"The client is closed">>, None)
\* what a supabase call rejects with when the database does not answer
DatabaseError == Err(<<"TypeError: fetch failed">>, None)
ReferenceError == Err(<<"scheduleData is not defined">>, None)

\* ---------------------------------------------------------- counter store
BareKey == <<"daily_tweet_count">>
DayKey(d) == <<"daily_tweet_count", d>>
Keys == {BareKey} \cup {DayKey(d) : d \in Days}
NoKey == [val |-> None, exp |-> None]

\* `await redisClient.get(key) || 0`, then parseInt
GetCount(key) == IF redis[key].val = None THEN 0 ELSE redis[key].val

\* QueueService.canProcessTweet
CanProcessTweetFailOpen ==
    IF ~redisUp THEN TRUE
    ELSE dailyTweetLimit - GetCount(BareKey) > 0

canProcessTweet ==
    IF ~redisUp THEN FALSE
    ELSE dailyTweetLimit - GetCount(BareKey) > 0

\* QueueService.getDailyCount
getDailyCount ==
    IF ~redisUp THEN 0 ELSE GetCount(DayKey(toDateString(now)))

\* an increment that counts a send twice
IncrementTwice ==
    LET key == DayKey(toDateString(now))
    IN  [redis EXCEPT ![key] = [val |-> GetCount(key) + 2, exp |-> now + TicksPerDay]]

\* QueueService.incrementDailyCount: INCR, then EXPIRE 86400
incrementDailyCount ==
    LET key == DayKey(toDateString(now))
    IN  [redis EXCEPT ![key] = [val |-> GetCount(key) + 1, exp |-> now + TicksPerDay]]

\* ------------------------------------------------------ rate-limit status
\* TwitterService.updateRateLimitStatus
updateRateLimitStatus ==
    [remaining |-> IF dailyTweetLimit - getDailyCount > 0
                   THEN dailyTweetLimit - getDailyCount ELSE 0,
     reset |-> NextUTCMidnight(now),
     lastUpdated |-> now]

\* Whether `Date.now() - lastUpdated > 5 minutes` can hold: five minutes are
\* less than a tick, so it must hold two ticks on and may hold before.
StaleChoices ==
    IF now - rateLimitStatus.lastUpdated >= 2 THEN {TRUE} ELSE {TRUE, FALSE}

\* TwitterService.getRateLimitStatus: the status after the call
getRateLimitStatus(stale) ==
    IF stale THEN updateRateLimitStatus ELSE rateLimitStatus

\* ------------------------------------------------------------- job store
NoPost == [status |-> "none"]

NewPost(text, customPrompt) ==
    [status |-> "scheduled", text |-> text, custom_prompt |-> customPrompt,
     tweet_id |-> None, error_message |-> <<>>, sent_at |-> None,
     failed_at |-> None, cancelled_at |-> None]

\* an update that writes nothing
UpdateIgnored(id, updates) == posts

\* an update that puts a row that has left scheduled back to scheduled
UpdateReschedules(id, updates) ==
    [posts EXCEPT ![id] =
        [f \in DOMAIN @ |->
            IF f = "status" /\ @.status # "scheduled" THEN "scheduled"
            ELSE IF f \in DOMAIN updates THEN updates[f] ELSE @[f]]]

\* DatabaseService.updateScheduledTweet: the table after the update of row id.
\* The update is `update(updateData).eq('id', id)`: the row's current status
\* is not read.  (updated_at, which no modelled query reads, is not carried.)
updateScheduledTweet(id, updates) ==
    [posts EXCEPT ![id] =
        [f \in DOMAIN @ |-> IF f \in DOMAIN updates THEN updates[f] ELSE @[f]]]

\* DatabaseService.saveTweetHistory: the table after the insert
saveTweetHistory(row) == Append(history, row)

HistoryRow(type, status, text, tweetId, msg) ==
    [type |-> type, status |-> status, text |-> text, tweet_id |-> tweetId,
     error_message |-> msg, posted_at |-> now]

\* ------------------------------------------------------------ the workers
NoJob == [id |-> <<>>, post |-> None, text |-> Null, custom_prompt |-> Null,
          attemptsMade |-> 0, include_image |-> FALSE, image_prompt |-> Null,
          imageFile |-> <<>>]
Idle == [pc |-> "idle", job |-> NoJob, text |-> Null, tweetId |-> None,
         error |-> NoError, prompt |-> Null, file |-> <<>>, mediaId |-> <<>>]

\* where a handler goes once it has its text: to the image, if the job has
\* one (an uploaded file for processTweet; for processScheduledTweet the
\* placeholder image, as the job data carry no image_url), else to the post
mediaStep(w, job) ==
    IF w = "imm"
    THEN IF job.imageFile # <<>> THEN "upload" ELSE "postCheck"
    ELSE IF job.include_image /\ (job.image_prompt # Null \/ job.custom_prompt # Null)
         THEN "download" ELSE "postCheck"

\* the two queues' attempts exchanged
AttemptsSwapped(w) == IF w = "imm" THEN ScheduledAttempts ELSE ImmediateAttempts

Attempts(w) == IF w = "imm" THEN ImmediateAttempts ELSE ScheduledAttempts

\* the isConfigError test of processTweet and processScheduledTweet
isConfigError(error) ==
    \/ includes(error.message, "demo")
    \/ includes(error.message, "credentials")
    \/ includes(error.message, "not configured")
    \/ includes(error.message, "invalid")
    \/ includes(error.message, "Unauthorized")
    \/ includes(error.message, "Forbidden")
    \/ includes(error.message, "Twitter API not configured")
    \/ includes(error.message, "Twitter API credentials are invalid")
    \/ includes(error.message, "Twitter API access forbidden")
    \/ includes(error.message, "Twitter API rate limit exceeded")
    \/ includes(error.message, "Request failed with code 429")
    \/ error.code = 401
    \/ error.code = 403
    \/ error.code = 429

\* the catch block of TwitterService.postTweet: the error it rethrows
postTweetError(error) ==
    IF includes(error.message, "demo") \/ includes(error.message, "credentials")
    THEN Err(<<"Twitter API not configured. Please set Twitter API credentials in your .env file.">>, error.code)
    ELSE IF error.code = 401 \/ includes(error.message, "Unauthorized")
    THEN Err(<<"Twitter API credentials are invalid. Please check your API keys and tokens.">>, error.code)
    ELSE IF error.code = 429 \/ includes(error.message, "rate limit")
    THEN Err(<<"Twitter API rate limit exceeded. Please wait before posting again.">>, error.code)
    ELSE IF error.code = 403 \/ includes(error.message, "Forbidden")
    THEN Err(<<"Twitter API access forbidden. Please check your app permissions.">>, error.code)
    ELSE Err(<<"Twitter API error: ">> \o error.message, error.code)

\* whether that catch block refreshes the rate-limit status on the way
postTweetRefreshes(error) ==
    /\ ~(includes(error.message, "demo") \/ includes(error.message, "credentials"))
    /\ ~(error.code = 401 \/ includes(error.message, "Unauthorized"))
    /\ (error.code = 429 \/ includes(error.message, "rate limit"))

\* postTweet's own error when its quota check fails
DailyLimitError == Err(<<"Daily tweet limit reached">>, None)
\* processScheduledTweet's error when its quota check fails
QuotaError == Err(<<"Daily rate limit reached">>, None)

\* Bull, after the processor's promise rejected: retry while attempts remain
AfterFailure(w) ==
    IF wk[w].job.attemptsMade + 1 < Attempts(w)
    THEN [queue EXCEPT ![w] =
            Append(@, [wk[w].job EXCEPT !.attemptsMade = @ + 1])]
    ELSE queue

Throw(w, error) == [wk EXCEPT ![w].pc = "catch", ![w].error = error]


maxHistory == 20
maxLength == 280
MAX_HISTORY == 10

\* a history that keeps the oldest texts and drops the newest
AddToHistoryOldestFirst(tweetText) ==
    IF Len(previousTweets) < maxHistory
    THEN Append(previousTweets, tweetText) ELSE previousTweets

\* AIService.addToHistory: unshift, then slice(0, maxHistory)
addToHistory(tweetText) ==
    LET all == <<tweetText>> \o previousTweets
    IN  IF Len(all) > maxHistory THEN SubSeq(all, 1, maxHistory) ELSE all

\* ContentGenerator failures (what model.generateContent rejects with)
AIErrors ==
    { Err(<<"API_KEY_INVALID">>, None), Err(<<"SAFETY">>, None) }

\* the catch block of AIService.generateTweet: the error it rethrows
generateTweetError(error) ==
    IF includes(error.message, "API_KEY_INVALID") \/ includes(error.message, "demo")
    THEN Err(<<"AI service not configured. Please set GEMINI_API_KEY in your .env file.">>, None)
    ELSE IF includes(error.message, "QUOTA_EXCEEDED")
    THEN Err(<<"AI service quota exceeded. Please check your Gemini API usage limits.">>, None)
    ELSE IF includes(error.message, "SAFETY")
    THEN Err(<<"AI service blocked content due to safety filters. Please try a different prompt.">>, None)
    ELSE Err(<<"AI tweet generation failed: ">> \o error.message, None)

\* the catch block of processScheduledTweet as it was meant: scheduleData in scope
CatchWithScheduleData(job, error) ==
    [posts |-> IF job.post # None /\ posts[job.post] # NoPost
               THEN updateScheduledTweet(job.post,
                        [status |-> "failed", error_message |-> error.message,
                         failed_at |-> now])
               ELSE posts,
     history |-> IF ~isConfigError(error)
                 THEN saveTweetHistory(HistoryRow("scheduled", "failed",
                          IF job.text # Null THEN job.text ELSE job.custom_prompt,
                          None, error.message))
                 ELSE history]

\* the catch block of processScheduledTweet: `scheduleData` is declared with
\* const inside the try block, so `scheduleData.id` in the catch block raises
\* a ReferenceError before any table is written
processScheduledTweetCatch(job, error) ==
    [posts |-> posts, history |-> history]

\* a repeatable trigger removed when an occurrence of it fails
RepeatRemovedOnFailure(id) == [repeat EXCEPT ![id] = NoJob]

\* Bull, after an occurrence of a repeatable job failed: the trigger was
\* registered with {repeat: {cron}} and is untouched by the job's outcome
repeatAfterFailure(id) == repeat

\* Bull job ids and the row ids of scheduled_tweets
RepeatJobId(id, n) == <<"repeat", id, n>>
Uuid(id) == <<"uuid", id>>

\* scheduledTweetQueue.getJob(jobId): the waiting jobs with that Bull id
getJob(jobId) == {i \in 1..Len(queue["sch"]) : queue["sch"][i].id = jobId}

\* QueueService.cancelScheduledTweet: the queue after job.remove()
cancelScheduledTweet(jobId) ==
    IF getJob(jobId) # {}
    THEN [queue EXCEPT !["sch"] =
            SelectSeq(@, LAMBDA j : j.id # jobId)]
    ELSE queue

\* the bodies POST /tweet/schedule is called with: a literal text, or a prompt
ScheduleInputs ==
    { [text |-> "T", customPrompt |-> Null, includeImage |-> FALSE,
       imagePrompt |-> Null],
      [text |-> Null, customPrompt |-> "P", includeImage |-> FALSE,
       imagePrompt |-> Null] }

\* the same with every combination of text and prompt the schema lets
\* through, without an image, with one, and with a prompt for one
DeliveryInputs ==
    { [text |-> t, customPrompt |-> p, includeImage |-> i[1], imagePrompt |-> i[2]] :
        t \in {"T", Null}, p \in {"P", Null},
        i \in {<<FALSE, Null>>, <<TRUE, Null>>, <<TRUE, "I">>} }

\* nothing generated yet
NoOutput == [raw |-> <<>>, text |-> <<>>]

\* no request under way, and no answer yet
NoRequest == [route |-> "none"]
NoResponse == [status |-> None, view |-> "none"]

\* ------------------------------------------------------------------ Init
\* The state a process starts in: counts are the sends the counter store may
\* hold for the day, keys the credentials the process may be configured with,
\* logs the history the database may hold.
Boot(counts, keys, logs) ==
    /\ now = 0
    /\ tz \in TzOffsets
    /\ \E c \in counts :
          /\ redis = [k \in Keys |->
                        IF k = DayKey(0) /\ c > 0
                        THEN [val |-> c, exp |-> TicksPerDay] ELSE NoKey]
          /\ sent = [d \in Days |-> IF d = 0 THEN c ELSE 0]
    /\ redisUp = TRUE
    /\ rateLimitStatus = [remaining |-> dailyTweetLimit, reset |-> Epoch,
                          lastUpdated |-> Epoch]
    /\ posts = [id \in PostIds |-> NoPost]
    /\ history \in logs
    /\ repeat = [id \in PostIds |-> NoJob]
    /\ queue = [w \in Workers |-> <<>>]
    /\ wk = [w \in Workers |-> Idle]
    /\ tweets = 0
    /\ submitted = 0
    /\ firings = 0
    /\ runs = 0
    /\ restarts = 0
    /\ req = NoRequest
    /\ resp = NoResponse
    /\ credentials \in keys
    /\ files = {}
    /\ previousTweets = <<>>
    /\ generated = NoOutput
    /\ generations = 0
    /\ jobQueue = <<>>
    /\ isProcessing = FALSE
    /\ timers = <<>>
    /\ dequeued = <<>>

Init == Boot(InitCounts, {"configured"}, {<<>>})

\* ----------------------------------------------------------- environment
Tick ==
    /\ now < MaxTime
    /\ now' = now + 1
    /\ redis' = [k \in Keys |->
                    IF redis[k].exp # None /\ redis[k].exp <= now + 1
                    THEN NoKey ELSE redis[k]]
    /\ UNCHANGED <<tz, redisUp, rateLimitStatus, posts, history, repeat, queue,
                   wk, tweets, sent, submitted, firings, runs>>
    /\ UNCHANGED <<restarts, req, resp, credentials, files>>
    /\ UNCHANGED <<previousTweets, generated, generations>>
    /\ UNCHANGED <<jobQueue, isProcessing, timers, dequeued>>

\* QueueService.redisClient loses, and regains, its connection
RedisDown ==
    /\ redisUp
    /\ redisUp' = FALSE
    /\ UNCHANGED <<now, tz, redis, rateLimitStatus, posts, history, repeat,
                   queue, wk, tweets, sent, submitted, firings, runs>>
    /\ UNCHANGED <<restarts, req, resp, credentials, files>>
    /\ UNCHANGED <<previousTweets, generated, generations>>
    /\ UNCHANGED <<jobQueue, isProcessing, timers, dequeued>>

RedisRecover ==
    /\ ~redisUp
    /\ redisUp' = TRUE
    /\ UNCHANGED <<now, tz, redis, rateLimitStatus, posts, history, repeat,
                   queue, wk, tweets, sent, submitted, firings, runs>>
    /\ UNCHANGED <<restarts, req, resp, credentials, files>>
    /\ UNCHANGED <<previousTweets, generated, generations>>
    /\ UNCHANGED <<jobQueue, isProcessing, timers, dequeued>>

\* ---------------------------------------------------------------- routes
\* GET /tweet/rate-status
RateStatusRoute ==
    /\ \E stale \in StaleChoices :
          rateLimitStatus' = getRateLimitStatus(stale)
    /\ UNCHANGED <<now, tz, redis, redisUp, posts, history, repeat, queue, wk,
                   tweets, sent, submitted, firings, runs>>
    /\ UNCHANGED <<restarts, req, resp, credentials, files>>
    /\ UNCHANGED <<previousTweets, generated, generations>>
    /\ UNCHANGED <<jobQueue, isProcessing, timers, dequeued>>

\* POST /tweet/post, with an image (multer has stored it) or without
Post(images) ==
    /\ submitted < MaxImmediate
    /\ \E stale \in StaleChoices, image \in images :
          LET file == <<"upload", submitted + 1>>
          IN  /\ rateLimitStatus' = getRateLimitStatus(stale)
              /\ files' = IF image THEN files \cup {file} ELSE files
              /\ IF rateLimitStatus'.remaining > 0
                 THEN /\ queue' = [queue EXCEPT !["imm"] =
                            Append(@, [NoJob EXCEPT
                                !.id = <<submitted + 1>>, !.text = "T",
                                !.imageFile = IF image THEN file ELSE <<>>])]
                      /\ submitted' = submitted + 1
                 ELSE UNCHANGED <<queue, submitted>>
    /\ UNCHANGED <<now, tz, redis, redisUp, posts, history, repeat, wk, tweets,
                   sent, firings, runs>>
    /\ UNCHANGED <<restarts, req, resp, credentials>>
    /\ UNCHANGED <<previousTweets, generated, generations>>
    /\ UNCHANGED <<jobQueue, isProcessing, timers, dequeued>>

PostRoute == Post({FALSE})

\* POST /tweet/schedule, while fewer than `last` schedules are stored
Schedule(inputs, last) ==
    /\ \E id \in 1..last, in \in inputs :
          /\ posts[id] = NoPost
          /\ \A j \in PostIds : j < id => posts[j] # NoPost
          /\ posts' = [posts EXCEPT ![id] = NewPost(in.text, in.customPrompt)]
          /\ repeat' = [repeat EXCEPT ![id] =
                [NoJob EXCEPT !.post = id, !.text = in.text,
                              !.custom_prompt = in.customPrompt,
                              !.include_image = in.includeImage,
                              !.image_prompt = in.imagePrompt]]
    /\ UNCHANGED <<now, tz, redis, redisUp, rateLimitStatus, history, queue, wk,
                   tweets, sent, submitted, firings, runs>>
    /\ UNCHANGED <<restarts, req, resp, credentials, files>>
    /\ UNCHANGED <<previousTweets, generated, generations>>
    /\ UNCHANGED <<jobQueue, isProcessing, timers, dequeued>>

ScheduleRoute == Schedule(ScheduleInputs, MaxPosts)

\* POST /tweet/cancel/:id
CancelRoute ==
    /\ \E id \in PostIds :
          IF posts[id] = NoPost
          THEN UNCHANGED <<posts, queue>>
          ELSE /\ posts' = updateScheduledTweet(id,
                    [status |-> "cancelled", cancelled_at |-> now])
               /\ queue' = cancelScheduledTweet(Uuid(id))
    /\ UNCHANGED <<now, tz, redis, redisUp, rateLimitStatus, history, repeat, wk,
                   tweets, sent, submitted, firings, runs>>
    /\ UNCHANGED <<restarts, req, resp, credentials, files>>
    /\ UNCHANGED <<previousTweets, generated, generations>>
    /\ UNCHANGED <<jobQueue, isProcessing, timers, dequeued>>

\* an occurrence of a repeatable trigger: Bull adds the job for it
Occurrence ==
    /\ \E id \in PostIds :
          /\ repeat[id] # NoJob
          /\ queue' = [queue EXCEPT !["sch"] =
                Append(@, [repeat[id] EXCEPT !.id = RepeatJobId(id, firings + 1)])]
    /\ firings' = firings + 1
    /\ UNCHANGED <<now, tz, redis, redisUp, rateLimitStatus, posts, history,
                   repeat, wk, tweets, sent, submitted, runs>>
    /\ UNCHANGED <<restarts, req, resp, credentials, files>>
    /\ UNCHANGED <<previousTweets, generated, generations>>
    /\ UNCHANGED <<jobQueue, isProcessing, timers, dequeued>>

\* the same, while the bound on occurrences allows
Fire ==
    /\ firings < MaxFirings
    /\ Occurrence

\* the same, with room for a second occurrence of a schedule, for schedules
\* whose occurrences lie further apart than the retries of one firing last
FireAgain ==
    /\ firings < MaxRetryFirings
    /\ queue["sch"] = <<>>
    /\ wk["sch"].pc = "idle"
    /\ Occurrence

\* --------------------------------------------------------------- workers
\* Bull hands the next waiting job of a queue to its processor (concurrency 1)
Process(w) ==
    /\ wk[w].pc = "idle"
    /\ queue[w] # <<>>
    /\ runs' = runs + 1
    /\ wk' = [wk EXCEPT ![w] =
            [Idle EXCEPT !.job = Head(queue[w]),
                         !.text = Head(queue[w]).text,
                         !.pc = IF w = "sch" THEN "canProcess"
                                ELSE mediaStep(w, Head(queue[w]))]]
    /\ queue' = [queue EXCEPT ![w] = Tail(@)]
    /\ UNCHANGED <<now, tz, redis, redisUp, rateLimitStatus, posts, history,
                   repeat, tweets, sent, submitted, firings>>
    /\ UNCHANGED <<restarts, req, resp, credentials, files>>
    /\ UNCHANGED <<previousTweets, generated, generations>>
    /\ UNCHANGED <<jobQueue, isProcessing, timers, dequeued>>

\* the same, while the bound on handler runs allows
Start(w) ==
    /\ runs < MaxRuns
    /\ Process(w)

\* processScheduledTweet: the handler's own quota check, then the choice of text
SchCanProcess ==
    /\ wk["sch"].pc = "canProcess"
    /\ LET job == wk["sch"].job
           tweetText == IF job.text # Null THEN job.text ELSE job.custom_prompt
           prompt == IF job.custom_prompt # Null THEN job.custom_prompt
                     ELSE IF job.text # Null THEN job.text
                     ELSE "Share an interesting tech insight"
       IN  wk' = IF ~canProcessTweet
                 THEN Throw("sch", QuotaError)
                 ELSE IF job.custom_prompt # Null \/ tweetText = Null
                 THEN [wk EXCEPT !["sch"].pc = "generate", !["sch"].text = tweetText,
                                 !["sch"].prompt = prompt]
                 ELSE [wk EXCEPT !["sch"].pc = mediaStep("sch", job),
                                 !["sch"].text = tweetText]
    /\ UNCHANGED <<now, tz, redis, redisUp, rateLimitStatus, posts, history,
                   repeat, queue, tweets, sent, submitted, firings, runs>>
    /\ UNCHANGED <<restarts, req, resp, credentials, files>>
    /\ UNCHANGED <<previousTweets, generated, generations>>
    /\ UNCHANGED <<jobQueue, isProcessing, timers, dequeued>>

\* processScheduledTweet: aiService.generateTweet
SchGenerate ==
    /\ wk["sch"].pc = "generate"
    /\ \/ /\ wk' = [wk EXCEPT !["sch"].pc = mediaStep("sch", wk["sch"].job),
                              !["sch"].text = "G"]
          /\ previousTweets' = addToHistory(<<"G">>)
       \/ /\ \E e \in AIErrors : wk' = Throw("sch", generateTweetError(e))
          /\ UNCHANGED previousTweets
    /\ UNCHANGED <<now, tz, redis, redisUp, rateLimitStatus, posts, history,
                   repeat, queue, tweets, sent, submitted, firings, runs>>
    /\ UNCHANGED <<restarts, req, resp, credentials, files>>
    /\ UNCHANGED <<generated, generations>>
    /\ UNCHANGED <<jobQueue, isProcessing, timers, dequeued>>

\* TwitterService.postTweet: the quota check
PostCheck(w) ==
    /\ wk[w].pc = "postCheck"
    /\ wk' = IF canProcessTweet
             THEN [wk EXCEPT ![w].pc = "tweet"]
             ELSE Throw(w, postTweetError(DailyLimitError))
    /\ UNCHANGED <<now, tz, redis, redisUp, rateLimitStatus, posts, history,
                   repeat, queue, tweets, sent, submitted, firings, runs>>
    /\ UNCHANGED <<restarts, req, resp, credentials, files>>
    /\ UNCHANGED <<previousTweets, generated, generations>>
    /\ UNCHANGED <<jobQueue, isProcessing, timers, dequeued>>

\* TwitterService.postTweet: client.v2.tweet
Tweet(w) ==
    /\ wk[w].pc = "tweet"
    /\ \/ /\ tweets < MaxTweets
          /\ credentials = "configured"
          /\ tweets' = tweets + 1
          /\ sent' = [sent EXCEPT ![UTCDay(now)] = @ + 1]
          /\ wk' = [wk EXCEPT ![w].pc = "incr", ![w].tweetId = tweets + 1]
          /\ UNCHANGED rateLimitStatus
       \/ \E e \in RemoteErrors :
             /\ wk' = Throw(w, postTweetError(e))
             /\ rateLimitStatus' = IF postTweetRefreshes(e)
                                   THEN updateRateLimitStatus ELSE rateLimitStatus
             /\ UNCHANGED <<tweets, sent>>
    /\ UNCHANGED <<now, tz, redis, redisUp, posts, history, repeat, queue,
                   submitted, firings, runs>>
    /\ UNCHANGED <<restarts, req, resp, credentials, files>>
    /\ UNCHANGED <<previousTweets, generated, generations>>
    /\ UNCHANGED <<jobQueue, isProcessing, timers, dequeued>>

\* processScheduledTweet: downloadImage of the placeholder picture into a
\* new file of the uploads directory; the request can fail before the file
\* is opened, and the write can fail after
Download ==
    /\ wk["sch"].pc = "download"
    /\ LET file == <<"image", runs>>
       IN  \/ /\ files' = files \cup {file}
              /\ wk' = [wk EXCEPT !["sch"].pc = "upload", !["sch"].file = file]
           \/ /\ files' \in {files, files \cup {file}}
              /\ wk' = Throw("sch", Err(<<"socket hang up">>, None))
    /\ UNCHANGED <<now, tz, redis, redisUp, rateLimitStatus, posts, history,
                   repeat, queue, tweets, sent, submitted, firings, runs>>
    /\ UNCHANGED <<restarts, req, resp, credentials>>
    /\ UNCHANGED <<previousTweets, generated, generations>>
    /\ UNCHANGED <<jobQueue, isProcessing, timers, dequeued>>

\* TwitterService.uploadMedia and, when it returns, the unlink of the file;
\* uploadMedia rethrows what client.v1.uploadMedia rejects with
Upload(w) ==
    /\ wk[w].pc = "upload"
    /\ LET file == IF w = "imm" THEN wk[w].job.imageFile ELSE wk[w].file
       IN  \/ /\ credentials = "configured"
              /\ file \in files
              /\ files' = files \ {file}
              /\ wk' = [wk EXCEPT ![w].pc = "postCheck", ![w].mediaId = file]
           \/ \E e \in RemoteErrors :
                 /\ wk' = Throw(w, e)
                 /\ UNCHANGED files
    /\ UNCHANGED <<now, tz, redis, redisUp, rateLimitStatus, posts, history,
                   repeat, queue, tweets, sent, submitted, firings, runs>>
    /\ UNCHANGED <<restarts, req, resp, credentials>>
    /\ UNCHANGED <<previousTweets, generated, generations>>
    /\ UNCHANGED <<jobQueue, isProcessing, timers, dequeued>>

\* TwitterService.postTweet: queueService.incrementDailyCount
Incr(w) ==
    /\ wk[w].pc = "incr"
    /\ IF redisUp
       THEN /\ redis' = incrementDailyCount
            /\ wk' = [wk EXCEPT ![w].pc = IF w = "sch" THEN "update" ELSE "save"]
       ELSE /\ wk' = Throw(w, postTweetError(RedisError))
            /\ UNCHANGED redis
    /\ UNCHANGED <<now, tz, redisUp, rateLimitStatus, posts, history, repeat,
                   queue, tweets, sent, submitted, firings, runs>>
    /\ UNCHANGED <<restarts, req, resp, credentials, files>>
    /\ UNCHANGED <<previousTweets, generated, generations>>
    /\ UNCHANGED <<jobQueue, isProcessing, timers, dequeued>>

\* processScheduledTweet: updateScheduledTweet(scheduleData.id, {status: 'sent', ...})
SchUpdate ==
    /\ wk["sch"].pc = "update"
    /\ LET id == wk["sch"].job.post
       IN  /\ posts[id] # NoPost
           /\ \/ /\ posts' = updateScheduledTweet(id,
                       [status |-> "sent", text |-> wk["sch"].text,
                        tweet_id |-> wk["sch"].tweetId, sent_at |-> now])
                 /\ wk' = [wk EXCEPT !["sch"].pc = "save"]
              \/ /\ wk' = Throw("sch", DatabaseError)
                 /\ UNCHANGED posts
    /\ UNCHANGED <<now, tz, redis, redisUp, rateLimitStatus, history, repeat,
                   queue, tweets, sent, submitted, firings, runs>>
    /\ UNCHANGED <<restarts, req, resp, credentials, files>>
    /\ UNCHANGED <<previousTweets, generated, generations>>
    /\ UNCHANGED <<jobQueue, isProcessing, timers, dequeued>>

\* processTweet, processScheduledTweet: saveTweetHistory({status: 'success', ...})
Save(w) ==
    /\ wk[w].pc = "save"
    /\ \/ /\ history' = saveTweetHistory(HistoryRow(
                  IF w = "sch" THEN "scheduled" ELSE "immediate", "success",
                  wk[w].text, wk[w].tweetId, <<>>))
          /\ wk' = [wk EXCEPT ![w] = Idle]
       \/ /\ wk' = Throw(w, DatabaseError)
          /\ UNCHANGED history
    /\ UNCHANGED <<now, tz, redis, redisUp, rateLimitStatus, posts, repeat,
                   queue, tweets, sent, submitted, firings, runs>>
    /\ UNCHANGED <<restarts, req, resp, credentials, files>>
    /\ UNCHANGED <<previousTweets, generated, generations>>
    /\ UNCHANGED <<jobQueue, isProcessing, timers, dequeued>>

\* processTweet: the catch block, then Bull's retry
ImmCatch ==
    /\ wk["imm"].pc = "catch"
    /\ history' = IF ~isConfigError(wk["imm"].error)
                   THEN saveTweetHistory(HistoryRow("immediate", "failed",
                            wk["imm"].job.text, None, wk["imm"].error.message))
                   ELSE history
    /\ queue' = AfterFailure("imm")
    /\ wk' = [wk EXCEPT !["imm"] = Idle]
    /\ UNCHANGED <<now, tz, redis, redisUp, rateLimitStatus, posts, repeat,
                   tweets, sent, submitted, firings, runs>>
    /\ UNCHANGED <<restarts, req, resp, credentials, files>>
    /\ UNCHANGED <<previousTweets, generated, generations>>
    /\ UNCHANGED <<jobQueue, isProcessing, timers, dequeued>>

\* processScheduledTweet: the catch block, then Bull's retry
SchCatch ==
    /\ wk["sch"].pc = "catch"
    /\ LET r == processScheduledTweetCatch(wk["sch"].job, wk["sch"].error)
       IN  /\ posts' = r.posts
           /\ history' = r.history
    /\ queue' = AfterFailure("sch")
    /\ repeat' = repeatAfterFailure(wk["sch"].job.post)
    /\ wk' = [wk EXCEPT !["sch"] = Idle]
    /\ UNCHANGED <<now, tz, redis, redisUp, rateLimitStatus, tweets, sent,
                   submitted, firings, runs>>
    /\ UNCHANGED <<restarts, req, resp, credentials, files>>
    /\ UNCHANGED <<previousTweets, generated, generations>>
    /\ UNCHANGED <<jobQueue, isProcessing, timers, dequeued>>

\* ---------------------------------------------------------------- restart
\* TwitterService's constructor: the status a new process starts with
FreshRateLimitStatus ==
    [remaining |-> dailyTweetLimit, reset |-> Epoch, lastUpdated |-> Epoch]

\* DatabaseService.cleanup, run at startup: of the history ordered by
\* posted_at, newest first, the records at positions 1000 to 2000 (counted
\* from 0) are deleted.  Its other query deletes completed, failed and
\* cancelled rows of scheduled_tweets not updated for 7 days, which is longer
\* than the clock runs here: it matches no row.
HistoryKept == 1000
HistoryLast == 2000
cleanup(h) ==
    LET n == Len(h)
        old == IF n > HistoryLast + 1 THEN n - HistoryLast - 1 ELSE 0
        new == IF n > HistoryKept THEN HistoryKept ELSE n
    IN  [j \in 1..(old + new) |->
            IF j <= old THEN h[j] ELSE h[n - new + (j - old)]]

\* a history one record longer than cleanup keeps, left by earlier sends
StoredHistory ==
    [i \in 1..(HistoryKept + 1) |->
        HistoryRow("immediate", "success", "T", 0, <<>>)]

\* The process stops and starts again.  What lives in Redis (counter, waiting
\* jobs, repeatable triggers) and in the database stays; nothing is loaded or
\* registered at startup, where cleanup runs and may fail; a job left active
\* is stalled and Bull moves it back to the head of its queue.
Restart ==
    /\ restarts < MaxRestarts
    /\ restarts' = restarts + 1
    /\ wk' = [w \in Workers |-> Idle]
    /\ queue' = [w \in Workers |->
                    IF wk[w].pc # "idle" THEN <<wk[w].job>> \o queue[w]
                    ELSE queue[w]]
    /\ rateLimitStatus' = FreshRateLimitStatus
    /\ history' \in {cleanup(history), history}
    /\ UNCHANGED <<now, tz, redis, redisUp, posts, repeat, tweets,
                   sent, submitted, firings, runs, req, resp, credentials,
                   files>>
    /\ previousTweets' = <<>>
    /\ UNCHANGED <<generated, generations>>
    /\ UNCHANGED <<jobQueue, isProcessing, timers, dequeued>>

ImmStart == Start("imm")
SchStart == Start("sch")
ImmPostCheck == PostCheck("imm")
SchPostCheck == PostCheck("sch")
ImmTweet == Tweet("imm")
SchTweet == Tweet("sch")
ImmIncr == Incr("imm")
SchIncr == Incr("sch")
ImmSave == Save("imm")
SchSave == Save("sch")

Next ==
    \/ Tick
    \/ RedisDown
    \/ RedisRecover
    \/ RateStatusRoute
    \/ PostRoute
    \/ ScheduleRoute
    \/ CancelRoute
    \/ Fire
    \/ ImmStart
    \/ SchStart
    \/ SchCanProcess
    \/ SchGenerate
    \/ ImmPostCheck
    \/ SchPostCheck
    \/ ImmTweet
    \/ SchTweet
    \/ ImmIncr
    \/ SchIncr
    \/ SchUpdate
    \/ ImmSave
    \/ SchSave
    \/ ImmCatch
    \/ SchCatch

Spec == Init /\ [][Next]_vars

\* ---------------------------------------------------------------- claims
Today == DayKey(toDateString(now))

\* C1: within one calendar day the number of successful sends never exceeds
\* the daily limit of 17: no 18th post of a day is accepted.
C1_QuotaNeverExceeded ==
    \A d \in Days : sent[d] <= dailyTweetLimit

\* C2: with the day's counter at 16 and two delivery attempts running
\* concurrently, at most one of them passes the quota check and posts: never
\* have both processors posted (and not yet recorded) while the counter
\* still stands at 16.
C2_AtMostOneAdmitted ==
    ~ /\ GetCount(Today) = dailyTweetLimit - 1
      /\ \A w \in Workers : wk[w].pc = "incr"

\* C3: canProcessTweet returns true exactly when the number of sends that
\* incrementDailyCount recorded for the current day is less than 17.
C3_CheckReadsTodaysCounter ==
    redisUp => (canProcessTweet <=> GetCount(Today) < dailyTweetLimit)

\* C4: while the counter store cannot be read, canProcessTweet returns false,
\* and a quota check made then sends the handler to its catch block without a
\* remote post request.
C4_FailClosed ==
    /\ [](~redisUp => ~canProcessTweet)
    /\ [][\A w \in Workers :
            (/\ ~redisUp
             /\ wk[w].pc \in {"canProcess", "postCheck"}
             /\ wk'[w] # wk[w])
            => /\ wk'[w].pc = "catch"
               /\ wk'[w].error \in {QuotaError, postTweetError(DailyLimitError)}
               /\ tweets' = tweets
               /\ sent' = sent]_vars

\* postTweet has refused to post during an outage of the counter store
C4_Witness ==
    /\ ~redisUp
    /\ wk["imm"].pc = "catch"
    /\ wk["imm"].error = postTweetError(DailyLimitError)
    /\ tweets = 0

\* C5: the counter is keyed by UTC day: a send recorded during one UTC day is
\* counted under that day and not against the next, so no counter of a later
\* UTC day is above zero (and the quota read just after UTC midnight is 17).
C5_ResetAtUTCMidnight ==
    \A d \in Days : d > UTCDay(now) => GetCount(DayKey(d)) = 0

\* C6: a post whose status is cancelled keeps that status: a later attempt to
\* set it to sent or failed is a no-op.
C6_TerminalStatusKept ==
    [][\A id \in PostIds :
          posts[id].status = "cancelled" => posts'[id].status = "cancelled"]_vars

\* C7: once a post has been cancelled (cancelled_at set), its repeating
\* trigger is deregistered, so no later occurrence of it fires.
C7_CancelDeregisters ==
    \A id \in PostIds :
        (posts[id] # NoPost /\ posts[id].cancelled_at # None)
        => repeat[id] = NoJob

\* the scheduled handler leaves its catch block
SchCatchStep == wk["sch"].pc = "catch" /\ wk'["sch"].pc # "catch"

\* C8: when a scheduled firing fails with a configuration/credential error,
\* the post ends in status failed with error_message and failed_at set, and
\* no history record is appended.
C8_ConfigFailureMarked ==
    [][(SchCatchStep /\ isConfigError(wk["sch"].error))
        => LET id == wk["sch"].job.post
           IN  /\ posts'[id].status = "failed"
               /\ posts'[id].error_message = wk["sch"].error.message
               /\ posts'[id].failed_at = now
               /\ history' = history]_vars

\* C9: when a scheduled firing fails with an error that is neither a
\* configuration/credential error nor the handler's quota refusal, the post
\* is set to failed with the message and one failed history record of type
\* scheduled carrying that message is appended.
C9_FailureRecorded ==
    [][(SchCatchStep /\ ~isConfigError(wk["sch"].error)
                     /\ wk["sch"].error # QuotaError)
        => LET id == wk["sch"].job.post
           IN  /\ posts'[id].status = "failed"
               /\ posts'[id].error_message = wk["sch"].error.message
               /\ Len(history') = Len(history) + 1
               /\ history'[Len(history')].type = "scheduled"
               /\ history'[Len(history')].status = "failed"
               /\ history'[Len(history')].error_message = wk["sch"].error.message]_vars

C11_SuccessRecorded ==
    [][LET w == wk["sch"]
           id == w.job.post
       IN  /\ (w.pc = "tweet" /\ wk'["sch"].pc = "incr")
              => /\ wk'["sch"].tweetId = tweets'
                 /\ tweets' = tweets + 1
                 /\ wk'["sch"].text = w.text
           /\ (w.pc = "incr" /\ wk'["sch"].pc = "update")
              => /\ redis'[Today].val = GetCount(Today) + 1
                 /\ \A k \in Keys \ {Today} : redis'[k] = redis[k]
           /\ (w.pc = "update" /\ wk'["sch"].pc = "save")
              => /\ posts'[id].status = "sent"
                 /\ posts'[id].tweet_id = w.tweetId
                 /\ posts'[id].sent_at = now
                 /\ posts'[id].text = w.text
           /\ (w.pc = "save" /\ wk'["sch"].pc = "idle")
              => history' = Append(history,
                    HistoryRow("scheduled", "success", w.text, w.tweetId, <<>>))]_vars

\* a firing has completed: its row is sent and one success record carries its id
C11_Witness ==
    /\ wk["sch"].pc = "idle"
    /\ posts[1] # NoPost
    /\ posts[1].status = "sent"
    /\ posts[1].tweet_id # None
    /\ Cardinality({i \in DOMAIN history :
            /\ history[i].status = "success"
            /\ history[i].tweet_id = posts[1].tweet_id
            /\ history[i].text = posts[1].text}) = 1
    /\ GetCount(Today) = dailyTweetLimit

\* C12: a job whose remote post has succeeded is never posted again, so the
\* remote posts accepted never outnumber the jobs created (accepted immediate
\* requests plus fired occurrences).
C12_NoDoublePost ==
    tweets <= submitted + firings

\* the scheduled queue and its processor across a restart
NextRestart ==
    \/ Restart
    \/ ScheduleRoute
    \/ CancelRoute
    \/ Fire
    \/ SchStart
    \/ SchCanProcess
    \/ SchGenerate
    \/ SchPostCheck
    \/ SchTweet
    \/ SchIncr
    \/ SchUpdate
    \/ SchSave
    \/ SchCatch

InitRestart == Boot(InitCounts, {"configured"}, {<<>>, StoredHistory})

SpecRestart == InitRestart /\ [][NextRestart]_vars

\* C13: when the process has restarted, the triggers registered are those of
\* the posts whose status is scheduled: a scheduled post keeps firing without
\* a manual step, and a post already terminal is not fired again.
C13_RestartFiresScheduledOnly ==
    [][restarts' > restarts
        => \A id \in PostIds :
              posts[id] # NoPost
              => (repeat'[id] # NoJob <=> posts[id].status = "scheduled")]_vars

\* -------------------------------------------------- retries to exhaustion
ImmProcess == Process("imm")
SchProcess == Process("sch")

\* the two queues with every run Bull's retry policy allows
NextRetry ==
    \/ PostRoute
    \/ ScheduleRoute
    \/ FireAgain
    \/ ImmProcess
    \/ SchProcess
    \/ SchCanProcess
    \/ SchGenerate
    \/ ImmPostCheck
    \/ SchPostCheck
    \/ ImmTweet
    \/ SchTweet
    \/ ImmIncr
    \/ SchIncr
    \/ SchUpdate
    \/ ImmSave
    \/ SchSave
    \/ ImmCatch
    \/ SchCatch

\* the clock stands still here, so one time zone is enough
InitRetry == Init /\ tz = 0

SpecRetry == InitRetry /\ [][NextRetry]_vars

C15_FailedRecordAfterRetries ==
    [][\A w \in Workers :
          (/\ wk[w].pc = "catch"
           /\ wk'[w].pc = "idle"
           /\ wk[w].error \in {postTweetError(e) : e \in {x \in RemoteErrors : x.code \in {429, 500}}})
          => IF wk[w].job.attemptsMade + 1 < Attempts(w)
             THEN history' = history
             ELSE /\ Len(history') = Len(history) + 1
                  /\ history'[Len(history')].status = "failed"]_vars

\* C16: a failed firing does not stop the recurrence: handling the failure,
\* the last one included, leaves the schedule's trigger registered, and the
\* next occurrence puts a new job with its own attempts on the queue.
C16_RecurrenceSurvivesFailure ==
    [][/\ SchCatchStep
          => /\ repeat' = repeat
             /\ repeat[wk["sch"].job.post] # NoJob
       /\ firings' > firings
          => LET job == queue'["sch"][Len(queue'["sch"])]
             IN  /\ job.attemptsMade = 0
                 /\ job.id = RepeatJobId(job.post, firings')
                 /\ job.text = repeat[job.post].text
                 /\ job.custom_prompt = repeat[job.post].custom_prompt]_vars

\* the second occurrence is running its first attempt after the first one
\* used up its five attempts without a success
C16_Witness ==
    /\ firings = 2
    /\ submitted = 0
    /\ tweets = 0
    /\ runs = ScheduledAttempts + 1
    /\ wk["sch"].pc # "idle"
    /\ wk["sch"].job.id = RepeatJobId(1, 2)
    /\ wk["sch"].job.attemptsMade = 0
    /\ queue["sch"] = <<>>

\* ------------------------------------------------------------ submission
\* Form fields are texts, kept as sequences of characters; a request body is
\* a record of the fields that were sent.
MaxTweetLength == 280
MaxPromptLength == 500
CronParts == 5

Digits == {"0", "1", "2", "3", "4", "5", "6", "7", "8", "9"}

\* \s of a JavaScript regular expression, as far as the inputs go
IsSpace(c) == c \in {" ", "\t"}

RECURSIVE trimStart(_)
trimStart(s) ==
    IF s = <<>> THEN s
    ELSE IF IsSpace(Head(s)) THEN trimStart(Tail(s)) ELSE s

RECURSIVE trimEnd(_)
trimEnd(s) ==
    IF s = <<>> THEN s
    ELSE IF IsSpace(s[Len(s)]) THEN trimEnd(SubSeq(s, 1, Len(s) - 1)) ELSE s

\* String.prototype.trim
trim(s) == trimEnd(trimStart(s))

\* String.prototype.split: the separator is one character of seps, or, with
\* run = TRUE, a run of blanks
RECURSIVE splitFrom(_, _, _, _, _)
splitFrom(s, seps, run, cur, out) ==
    IF s = <<>> THEN Append(out, cur)
    ELSE IF Head(s) \in seps
         THEN splitFrom(IF run THEN trimStart(Tail(s)) ELSE Tail(s),
                        seps, run, <<>>, Append(out, cur))
         ELSE splitFrom(Tail(s), seps, run, Append(cur, Head(s)), out)

\* value.split(/\s+/)
splitSpaces(s) == splitFrom(s, {" ", "\t"}, TRUE, <<>>, <<>>)

\* time.split(':')
splitColon(s) == splitFrom(s, {":"}, FALSE, <<>>, <<>>)

\* /^([01]?[0-9]|2[0-3]):[0-5][0-9]$/
timePattern(s) ==
    LET minuteAt(i) ==
            /\ s[i] = ":"
            /\ s[i + 1] \in {"0", "1", "2", "3", "4", "5"}
            /\ s[i + 2] \in Digits
    IN  \/ /\ Len(s) = 4
           /\ s[1] \in Digits
           /\ minuteAt(2)
        \/ /\ Len(s) = 5
           /\ \/ s[1] \in {"0", "1"} /\ s[2] \in Digits
              \/ s[1] = "2" /\ s[2] \in {"0", "1", "2", "3"}
           /\ minuteAt(3)

\* the same rule, taking five parts or more
cronValidAtLeast(value) == Len(splitSpaces(trim(value))) >= CronParts

\* the 'Cron Expression Validation' rule of schemas.schedule.customCron
cronValid(value) == Len(splitSpaces(trim(value))) = CronParts

\* Joi.string().max(n): a text that is not empty and not longer than n
joiString(v, n) == v # <<>> /\ Len(v) <= n

Has(body, f) == f \in DOMAIN body

\* body.scheduleType, undefined when the field was not sent
TypeOf(body) ==
    IF Has(body, "scheduleType") THEN body.scheduleType ELSE "undefined"

ScheduleTypes == {"everyMinute", "hourly", "daily", "weekly", "custom"}

\* schemas.tweet
tweetSchema(body) ==
    /\ Has(body, "text")
    /\ joiString(body.text, MaxTweetLength)
    /\ body.text # <<>>

\* a schema that looks at the schedule type only
scheduleSchemaTypeOnly(body) == TypeOf(body) \in ScheduleTypes

\* schemas.schedule
scheduleSchema(body) ==
    /\ Has(body, "text") => joiString(body.text, MaxTweetLength)
    /\ Has(body, "scheduleType")
    /\ TypeOf(body) \in ScheduleTypes
    /\ Has(body, "customPrompt") => joiString(body.customPrompt, MaxPromptLength)
    /\ TypeOf(body) = "custom"
          => /\ Has(body, "customCron")
             /\ body.customCron # <<>>
             /\ cronValid(body.customCron)
    /\ TypeOf(body) \in {"daily", "weekly"}
          => /\ Has(body, "time")
             /\ timePattern(body.time)

\* the value validate returns: fields that are stripped are gone
scheduleValue(body) ==
    LET keep == {f \in DOMAIN body :
                    /\ f = "customCron" => TypeOf(body) = "custom"
                    /\ f = "time" => TypeOf(body) \in {"daily", "weekly"}}
    IN  [f \in keep |-> body[f]]

\* validate(schema, data), given what schema.validate(data) found: throws on
\* an error, else returns the value
validate(valid, value) == [error |-> ~valid, value |-> value]

\* x || fallback, for a field that may be missing
OrElse(body, f, fallback) ==
    IF Has(body, f) /\ body[f] # <<>> THEN body[f] ELSE fallback

Star == <<"*">>

\* `${a} ${b} ${c} ${d} ${e}`
Template(fields) ==
    fields[1] \o <<" ">> \o fields[2] \o <<" ">> \o fields[3] \o <<" ">>
        \o fields[4] \o <<" ">> \o fields[5]

\* undefined, as a template prints it
Undefined == <<"u", "n", "d", "e", "f", "i", "n", "e", "d">>

\* parts[i] of a destructured array
Part(parts, i) == IF i <= Len(parts) THEN parts[i] ELSE Undefined

\* the switch found no case: throw new Error('Invalid schedule type')
InvalidScheduleType == <<>>

\* the switch of POST /schedule that turns the schedule type into a cron
cronTime(data) ==
    LET hm == splitColon(OrElse(data, "time", <<"0", "0", ":", "0", "0">>))
    IN  CASE TypeOf(data) = "everyMinute" ->
                Template(<<<<"*", "/", "1">>, Star, Star, Star, Star>>)
          [] TypeOf(data) = "hourly" ->
                Template(<<<<"0">>, Star, Star, Star, Star>>)
          [] TypeOf(data) = "daily" ->
                Template(<<Part(hm, 2), Part(hm, 1), Star, Star, Star>>)
          [] TypeOf(data) = "weekly" ->
                Template(<<Part(hm, 2), Part(hm, 1), Star, Star, <<"0">>>>)
          [] TypeOf(data) = "custom" ->
                IF Has(data, "customCron") THEN data.customCron ELSE Undefined
          [] OTHER -> InvalidScheduleType

\* DatabaseService.createScheduledTweet: the row of a new schedule
createScheduledTweet(scheduleData) ==
    [status |-> "scheduled", text |-> scheduleData.text,
     custom_prompt |-> scheduleData.custom_prompt,
     tweet_id |-> None, error_message |-> <<>>, sent_at |-> None,
     failed_at |-> None, cancelled_at |-> None,
     schedule_type |-> scheduleData.schedule_type,
     cron_time |-> scheduleData.cron_time]

\* ------------------------------------------------------- request bodies
Field(name, values) == {<<>>} \cup {name :> v : v \in values}

LongText == [i \in 1..(MaxTweetLength + 1) |-> "x"]

TextInputs == {<<>>, <<"T">>, LongText}

TypeInputs == ScheduleTypes \cup {"monthly"}

TimeInputs ==
    { <<"0", "9", ":", "0", "0">>,
      <<"9", ":", "0", "5">>,
      <<"2", "3", ":", "5", "9">>,
      <<"2", "4", ":", "0", "0">>,
      <<"0", "9", ":", "6", "0">>,
      <<"0", "9", "0", "0">> }

CronInputs ==
    { <<"*", " ", "*", " ", "*">>,
      <<"*", "/", "1", " ", "*", " ", "*", " ", "*", " ", "*">>,
      <<" ", "5", " ", "*", "\t", " ", "*", " ", "*", " ", "*", " ">>,
      <<"*", " ", "*", " ", "*", " ", "*", " ", "*", " ", "*">>,
      <<"*", "*", "*", "*", "*">>,
      <<>> }

PromptInputs == {<<"P">>}

ScheduleBodies ==
    { t @@ k @@ p @@ c @@ h :
        t \in Field("text", TextInputs),
        k \in Field("scheduleType", TypeInputs),
        p \in Field("customPrompt", PromptInputs),
        c \in Field("customCron", CronInputs),
        h \in Field("time", TimeInputs) }

PostBodies == Field("text", TextInputs)

Requests ==
    {[route |-> "schedule", body |-> b] : b \in ScheduleBodies}
        \cup {[route |-> "post", body |-> b] : b \in PostBodies}

\* ---------------------------------------------------------- the routes
\* a request arrives, once the one before it is finished
Receive ==
    /\ req = NoRequest
    /\ \E r \in Requests :
          /\ r.route = "schedule" => \E id \in 1..MaxPosts : posts[id] = NoPost
          /\ r.route = "post" => submitted < MaxImmediate
          /\ req' = r
    /\ resp' = NoResponse
    /\ UNCHANGED <<now, tz, redis, redisUp, rateLimitStatus, posts, history,
                   repeat, queue, wk, tweets, sent, submitted, firings, runs,
                   restarts, credentials, files>>
    /\ UNCHANGED <<previousTweets, generated, generations>>
    /\ UNCHANGED <<jobQueue, isProcessing, timers, dequeued>>

\* res.render(view), with no status set, answers 200
Render(view) == [status |-> 200, view |-> view]

\* POST /tweet/post: validate, check the rate limit, queue the job
SubmitPost ==
    /\ req.route = "post"
    /\ resp = NoResponse
    /\ LET v == validate(tweetSchema(req.body), req.body)
       IN  IF v.error
           THEN /\ resp' = Render("error")
                /\ UNCHANGED <<rateLimitStatus, queue, submitted>>
           ELSE \E stale \in StaleChoices :
                   /\ rateLimitStatus' = getRateLimitStatus(stale)
                   /\ IF rateLimitStatus'.remaining > 0
                      THEN /\ queue' = [queue EXCEPT !["imm"] =
                                 Append(@, [NoJob EXCEPT !.id = <<submitted + 1>>,
                                                         !.text = OrElse(v.value, "text", Undefined)])]
                           /\ submitted' = submitted + 1
                           /\ resp' = Render("success")
                      ELSE /\ resp' = [status |-> 429, view |-> "error"]
                           /\ UNCHANGED <<queue, submitted>>
    /\ UNCHANGED <<now, tz, redis, redisUp, posts, history, repeat, wk, tweets,
                   sent, firings, runs, restarts, req,
                   credentials, files>>
    /\ UNCHANGED <<previousTweets, generated, generations>>
    /\ UNCHANGED <<jobQueue, isProcessing, timers, dequeued>>

\* POST /tweet/schedule: validate, convert to cron, create the row, register
\* the repeatable job; the insert or the registration may throw
SubmitSchedule ==
    /\ req.route = "schedule"
    /\ resp = NoResponse
    /\ LET v == validate(scheduleSchema(req.body), scheduleValue(req.body))
       IN  IF v.error
           THEN /\ resp' = Render("error")
                /\ UNCHANGED <<posts, repeat>>
           ELSE LET data == v.value
                    scheduleData ==
                        [schedule_type |-> TypeOf(data),
                         cron_time |-> cronTime(data),
                         custom_prompt |-> OrElse(data, "customPrompt", Null),
                         text |-> OrElse(data, "text", Null)]
                IN  IF scheduleData.cron_time = InvalidScheduleType
                    THEN /\ resp' = Render("error")
                         /\ UNCHANGED <<posts, repeat>>
                    ELSE
                    \E id \in 1..MaxPosts :
                       /\ posts[id] = NoPost
                       /\ \A j \in PostIds : j < id => posts[j] # NoPost
                       /\ \/ /\ posts' = [posts EXCEPT ![id] =
                                    createScheduledTweet(scheduleData)]
                             /\ repeat' = [repeat EXCEPT ![id] =
                                    [NoJob EXCEPT !.post = id,
                                                  !.text = scheduleData.text,
                                                  !.custom_prompt =
                                                      scheduleData.custom_prompt]]
                             /\ resp' = Render("success")
                          \/ /\ posts' = [posts EXCEPT ![id] =
                                    createScheduledTweet(scheduleData)]
                             /\ resp' = Render("error")
                             /\ UNCHANGED repeat
                          \/ /\ resp' = Render("error")
                             /\ UNCHANGED <<posts, repeat>>
    /\ UNCHANGED <<now, tz, redis, redisUp, rateLimitStatus, history, queue, wk,
                   tweets, sent, submitted, firings, runs, restarts, req,
                   credentials, files>>
    /\ UNCHANGED <<previousTweets, generated, generations>>
    /\ UNCHANGED <<jobQueue, isProcessing, timers, dequeued>>

\* the answer is sent and the request is finished
Respond ==
    /\ resp # NoResponse
    /\ req' = NoRequest
    /\ resp' = NoResponse
    /\ UNCHANGED <<now, tz, redis, redisUp, rateLimitStatus, posts, history,
                   repeat, queue, wk, tweets, sent, submitted, firings, runs,
                   restarts, credentials, files>>
    /\ UNCHANGED <<previousTweets, generated, generations>>
    /\ UNCHANGED <<jobQueue, isProcessing, timers, dequeued>>

NextSubmit ==
    \/ RedisDown
    \/ RedisRecover
    \/ Receive
    \/ Respond
    \/ SubmitPost
    \/ SubmitSchedule

\* the day's quota may be used up when the requests come
InitSubmit ==
    /\ Boot({dailyTweetLimit - 1, dailyTweetLimit}, {"configured"}, {<<>>})
    /\ tz = 0

SpecSubmit == InitSubmit /\ [][NextSubmit]_vars

\* ------------------------------------------- what a request should get
\* the number of fields of a text: its maximal runs of non-blank characters
FieldCount(s) ==
    Cardinality({i \in 1..Len(s) :
                    ~IsSpace(s[i]) /\ (i = 1 \/ IsSpace(s[i - 1]))})

\* the well-formed times of day among the inputs, read as hour and minute
Clock ==
    (<<"0", "9", ":", "0", "0">> :> [hour |-> <<"9">>, minute |-> <<"0">>])
    @@ (<<"9", ":", "0", "5">> :> [hour |-> <<"9">>, minute |-> <<"5">>])
    @@ (<<"2", "3", ":", "5", "9">> :>
            [hour |-> <<"2", "3">>, minute |-> <<"5", "9">>])

\* a number without its leading zeros; any other field as it is
RECURSIVE Numeral(_)
Numeral(f) ==
    IF Len(f) > 1 /\ Head(f) = "0" /\ (\A i \in DOMAIN f : f[i] \in Digits)
    THEN Numeral(Tail(f)) ELSE f

\* the fields of a cron expression, numbers without leading zeros
CronFields(cron) ==
    LET parts == splitSpaces(trim(cron))
    IN  [i \in 1..Len(parts) |-> Numeral(parts[i])]

\* a text field that is absent or within the length limit
SoundText(body) ==
    Has(body, "text") => (body.text # <<>> /\ Len(body.text) <= MaxTweetLength)

\* a schedule request that names a kind and gives what the kind needs, the
\* time of day being optional
Resolvable(body) ==
    /\ TypeOf(body) \in ScheduleTypes
    /\ SoundText(body)
    /\ TypeOf(body) = "custom"
          => Has(body, "customCron") /\ FieldCount(body.customCron) = CronParts
    /\ TypeOf(body) \in {"daily", "weekly"}
          => (Has(body, "time") => body.time \in DOMAIN Clock)

\* the recurrence rule the kind stands for, field by field
ExpectedFields(body) ==
    LET at == IF Has(body, "time") THEN Clock[body.time] ELSE [hour |-> <<"0">>, minute |-> <<"0">>]
    IN  CASE TypeOf(body) = "everyMinute" -> <<<<"*", "/", "1">>, Star, Star, Star, Star>>
          [] TypeOf(body) = "hourly" -> <<<<"0">>, Star, Star, Star, Star>>
          [] TypeOf(body) = "daily" -> <<at.minute, at.hour, Star, Star, Star>>
          [] TypeOf(body) = "weekly" -> <<at.minute, at.hour, Star, Star, <<"0">>>>
          [] TypeOf(body) = "custom" -> CronFields(body.customCron)

\* the row made last
LatestId ==
    CHOOSE id \in PostIds :
        posts[id] # NoPost /\ \A j \in PostIds : j > id => posts[j] = NoPost

\* a request the submission boundary has to turn away
Malformed(r) ==
    IF r.route = "schedule"
    THEN \/ TypeOf(r.body) \notin ScheduleTypes
         \/ /\ TypeOf(r.body) = "custom"
            /\ ~Has(r.body, "customCron") \/ FieldCount(r.body.customCron) # CronParts
         \/ /\ TypeOf(r.body) \in {"daily", "weekly"}
            /\ Has(r.body, "time")
            /\ r.body.time \notin DOMAIN Clock
         \/ Has(r.body, "text") /\ Len(r.body.text) > MaxTweetLength
    ELSE \/ ~Has(r.body, "text")
         \/ r.body.text = <<>>
         \/ Len(r.body.text) > MaxTweetLength

\* the step that answers the request under way
Answers == req # NoRequest /\ resp = NoResponse /\ resp' # NoResponse

\* C17: the submission handler resolves the schedule kind to a recurrence
\* rule at creation: everyMinute to */1 * * * *, hourly to 0 * * * *, daily
\* with time HH:MM to minute MM, hour HH of every day, weekly to the same on
\* weekday 0, custom to the caller's expression unchanged; daily and weekly
\* without a time are resolved as for 00:00. Numbers are compared by value.
C17_CronConversion ==
    (req.route = "schedule" /\ Resolvable(req.body))
    => /\ scheduleSchema(req.body)
       /\ resp.view = "success"
             => /\ CronFields(posts[LatestId].cron_time) = ExpectedFields(req.body)
                /\ TypeOf(req.body) = "custom"
                      => posts[LatestId].cron_time = req.body.customCron

\* C18: a schedule submission of kind custom is accepted only if customCron
\* has exactly 5 whitespace-separated fields: the 3 fields of "* * *" are
\* turned away, and "*/1 * * * *" passes validation.
C18_CustomCronFiveFields ==
    (req.route = "schedule" /\ TypeOf(req.body) = "custom")
    => /\ resp.view = "success"
             => /\ Has(req.body, "customCron")
                /\ FieldCount(req.body.customCron) = 5
       /\ (Has(req.body, "customCron") /\ req.body.customCron = <<"*", " ", "*", " ", "*">>)
             => /\ ~scheduleSchema(req.body)
                /\ resp # NoResponse => resp.view = "error"
       /\ (/\ Has(req.body, "customCron")
           /\ req.body.customCron =
                 <<"*", "/", "1", " ", "*", " ", "*", " ", "*", " ", "*">>
           /\ SoundText(req.body))
             => scheduleSchema(req.body)

\* a custom schedule with five fields between blanks of several kinds has
\* been accepted and its row made
C18_Witness ==
    /\ req.route = "schedule"
    /\ TypeOf(req.body) = "custom"
    /\ Has(req.body, "customCron")
    /\ req.body.customCron =
          <<" ", "5", " ", "*", "\t", " ", "*", " ", "*", " ", "*", " ">>
    /\ resp.view = "success"
    /\ posts[1] # NoPost
    /\ posts[1].cron_time = req.body.customCron
    /\ repeat[1] # NoJob

\* C19: a submission that fails validation (unsupported schedule kind,
\* malformed cron, malformed time, missing or over-long text) is answered
\* with an error and creates no scheduled post, no history record and no job:
\* the job store and both queues are left as they were.
C19_RejectedLeavesNoTrace ==
    [][(Answers /\ Malformed(req))
          => /\ resp'.view = "error"
             /\ UNCHANGED <<posts, history, queue, repeat, submitted>>]_vars

\* a weekly schedule with a time that is no time of day has been turned away
C19_Witness ==
    /\ req.route = "schedule"
    /\ TypeOf(req.body) = "weekly"
    /\ Has(req.body, "time")
    /\ req.body.time = <<"2", "4", ":", "0", "0">>
    /\ SoundText(req.body)
    /\ resp.view = "error"
    /\ \A id \in PostIds : posts[id] = NoPost /\ repeat[id] = NoJob
    /\ history = <<>>
    /\ \A w \in Workers : queue[w] = <<>>

\* C20: a malformed schedule request (unsupported kind, malformed cron,
\* malformed time) is answered with status 400 and an accepted one with a 2xx
\* status, so that the status tells rejection from acceptance.
C20_StatusTellsRejection ==
    (req.route = "schedule" /\ resp # NoResponse)
    => IF Malformed(req)
       THEN resp.status = 400
       ELSE resp.view = "success" => resp.status \in 200..299

\* -------------------------------------------------- the content generator
\* a cut that keeps limit characters and then adds the marker
CleanCutsAtLimit(text, limit) ==
    IF Len(text) > limit
    THEN SubSeq(text, 1, limit) \o <<".", ".", ".">> ELSE text

\* AIService.cleanTweetText: a quote at either end and a leading "Tweet:"
\* label go, the rest is trimmed and cut to the limit with a closing "..."
cleanTweetText(text, limit) ==
    LET Quote == {"\"", "'"}
        a == IF text # <<>> /\ Head(text) \in Quote THEN Tail(text) ELSE text
        b == IF a # <<>> /\ a[Len(a)] \in Quote
             THEN SubSeq(a, 1, Len(a) - 1) ELSE a
        label == /\ Len(b) >= 6
                 /\ b[1] \in {"T", "t"} /\ b[2] \in {"W", "w"}
                 /\ b[3] \in {"E", "e"} /\ b[4] \in {"E", "e"}
                 /\ b[5] \in {"T", "t"} /\ b[6] = ":"
        c == IF label THEN trimStart(SubSeq(b, 7, Len(b))) ELSE b
        cleaned == trim(c)
        kept == IF limit > 3 THEN limit - 3 ELSE 0
    IN  IF Len(cleaned) > limit
        THEN SubSeq(cleaned, 1, kept) \o <<".", ".", ".">> ELSE cleaned

\* what the model answers: texts of every length around the limit, bare,
\* quoted, labelled or padded
RawOutputs ==
    LET Body(n) == [i \in 1..n |-> "x"]
        Lengths == (0..2) \cup ((maxLength - 4)..(maxLength + 4))
        Fronts == {<<>>, <<"\"">>, <<" ">>, <<"T", "w", "e", "e", "t", ":", " ">>,
                   <<"'", "t", "w", "e", "e", "t", ":">>}
        Backs == {<<>>, <<"\"">>, <<" ">>}
    IN  {f \o Body(n) \o k : f \in Fronts, n \in Lengths, k \in Backs}

\* AIService.generateTweet, as POST /tweet/ai-generate calls it: the first
\* answer is any of RawOutputs, the later ones differ from each other
generateTweet ==
    /\ generations < MaxGenerations
    /\ \/ \E raw \in IF generations = 0 THEN RawOutputs
                      ELSE {[i \in 1..generations |-> "x"]} :
             LET tweetText == cleanTweetText(raw, maxLength)
             IN  /\ previousTweets' = addToHistory(tweetText)
                 /\ generated' = [raw |-> raw, text |-> tweetText]
                 /\ generations' = generations + 1
       \/ /\ generated' = NoOutput
          /\ UNCHANGED <<previousTweets, generations>>
    /\ UNCHANGED <<now, tz, redis, redisUp, rateLimitStatus, posts, history,
                   repeat, queue, wk, tweets, sent, submitted, firings, runs>>
    /\ UNCHANGED <<restarts, req, resp, credentials, files>>
    /\ UNCHANGED <<jobQueue, isProcessing, timers, dequeued>>

NextGenerator ==
    \/ generateTweet

SpecGenerator == InitRetry /\ [][NextGenerator]_vars

\* ------------------------------------------------- deliveries with images
PostImage == Post(BOOLEAN)
ScheduleImage == Schedule(DeliveryInputs, MaxPosts)
ImmUpload == Upload("imm")
SchUpload == Upload("sch")

\* DatabaseService.getTweetStats: the rows posted since the local midnight,
\* all rows, and the scheduled rows; zeros when the database does not answer
getTweetStats(ok) ==
    LET startOfDay == toDateString(now) * TicksPerDay - tz
    IN  IF ok
        THEN [todayTweets |-> Cardinality({i \in DOMAIN history :
                                    history[i].posted_at >= startOfDay}),
              totalTweets |-> Len(history),
              scheduledTweets |-> Cardinality({id \in PostIds :
                                    posts[id].status = "scheduled"})]
        ELSE [todayTweets |-> 0, totalTweets |-> 0, scheduledTweets |-> 0]

\* GET /: the dashboard with its statistics
HomeRoute ==
    /\ resp = NoResponse
    /\ \E ok \in BOOLEAN :
          resp' = [status |-> 200, view |-> "index", stats |-> getTweetStats(ok)]
    /\ UNCHANGED <<now, tz, redis, redisUp, rateLimitStatus, posts, history,
                   repeat, queue, wk, tweets, sent, submitted, firings, runs>>
    /\ UNCHANGED <<restarts, req, credentials, files>>
    /\ UNCHANGED <<previousTweets, generated, generations>>
    /\ UNCHANGED <<jobQueue, isProcessing, timers, dequeued>>

\* DatabaseService.getTweetHistory: order by posted_at descending, then
\* range(offset, offset + limit - 1)
getTweetHistory(limit, offset) ==
    LET rest == IF Len(history) > offset THEN Len(history) - offset ELSE 0
        n == IF rest > limit THEN limit ELSE rest
    IN  [i \in 1..n |-> history[Len(history) - offset - i + 1]]

\* GET /tweet/history?limit=&offset=
HistoryRoute ==
    /\ resp = NoResponse
    /\ \E limit \in 1..2, offset \in 0..2 :
          \/ LET data == getTweetHistory(limit, offset)
             IN  resp' = [status |-> 200, view |-> "history", data |-> data,
                          limit |-> limit, offset |-> offset,
                          hasMore |-> Len(data) = limit]
          \/ resp' = [status |-> 500, view |-> "history"]
    /\ UNCHANGED <<now, tz, redis, redisUp, rateLimitStatus, posts, history,
                   repeat, queue, wk, tweets, sent, submitted, firings, runs>>
    /\ UNCHANGED <<restarts, req, credentials, files>>
    /\ UNCHANGED <<previousTweets, generated, generations>>
    /\ UNCHANGED <<jobQueue, isProcessing, timers, dequeued>>

\* one immediate request and one schedule of every shape, delivered by a
\* process whose Twitter keys are real or were left at their defaults, and
\* the pages that show what was delivered
NextDelivery ==
    \/ HomeRoute
    \/ HistoryRoute
    \/ Respond
    \/ PostImage
    \/ ScheduleImage
    \/ Fire
    \/ ImmStart
    \/ SchStart
    \/ SchCanProcess
    \/ SchGenerate
    \/ Download
    \/ ImmUpload
    \/ SchUpload
    \/ ImmPostCheck
    \/ SchPostCheck
    \/ ImmTweet
    \/ SchTweet
    \/ ImmIncr
    \/ SchIncr
    \/ SchUpdate
    \/ ImmSave
    \/ SchSave
    \/ ImmCatch
    \/ SchCatch

InitDelivery == Boot({0}, {"configured", "placeholder"}, {<<>>}) /\ tz = 0

SpecDelivery == InitDelivery /\ [][NextDelivery]_vars

\* ------------------------------------------------ two schedules, one queue
ScheduleTwo == Schedule(ScheduleInputs, MaxRows)

\* occurrences of the triggers, whatever the processor is doing
FireEach ==
    /\ firings < MaxRetryFirings
    /\ Occurrence

\* the scheduled queue with two schedules whose firings can come together
NextConcurrent ==
    \/ ScheduleTwo
    \/ FireEach
    \/ SchProcess
    \/ SchCanProcess
    \/ SchGenerate
    \/ SchPostCheck
    \/ SchTweet
    \/ SchIncr
    \/ SchUpdate
    \/ SchSave
    \/ SchCatch

InitConcurrent == Boot({0}, {"configured"}, {<<>>}) /\ tz = 0

SpecConcurrent == InitConcurrent /\ [][NextConcurrent]_vars

\* C23: once a post's status has changed from scheduled to sent, failed or
\* cancelled, no operation (firing, retry, cancel, cleanup, restart) sets it
\* back to scheduled.
C23_NeverBackToScheduled ==
    [][\A id \in PostIds :
          posts[id].status \in {"sent", "failed", "cancelled"}
          => posts'[id].status # "scheduled"]_vars

\* a cancelled post was marked sent by a firing, and the process restarted
C23_Witness ==
    /\ posts[1].status = "sent"
    /\ posts[1].cancelled_at # None
    /\ restarts = 1

\* C24: for a recurring schedule, an occurrence after the first leaves the
\* already-sent post as it is: its tweet_id, text and sent_at are set once,
\* on the first transition to sent, and no later firing overwrites them.
C24_SentRecordKept ==
    [][\A id \in PostIds :
          posts[id].status = "sent"
          => /\ posts'[id].tweet_id = posts[id].tweet_id
             /\ posts'[id].text = posts[id].text
             /\ posts'[id].sent_at = posts[id].sent_at]_vars

\* C27: the daily counter is changed only by a successful remote post, by
\* exactly +1: the only step that writes a counter is the one that follows an
\* accepted post, and it adds one to the current day's counter; a failed
\* attempt and every other operation leave the counters as they are (a key
\* that reaches its expiry is dropped by the store).
C27_CounterOnlyBySend ==
    [][\A k \in Keys :
          redis'[k] # redis[k]
          => \/ /\ now' > now
                /\ redis[k].exp # None
                /\ redis[k].exp <= now'
                /\ redis'[k] = NoKey
             \/ /\ k = Today
                /\ redis'[k].val = GetCount(k) + 1
                /\ \E w \in Workers :
                      /\ wk[w].pc = "incr"
                      /\ wk[w].tweetId # None
                      /\ wk'[w].pc \in {"update", "save"}]_vars

\* two attempts have ended, one without a post and one with a post, and the
\* day's counter has gone from 16 to 17
C27_Witness ==
    /\ runs = 2
    /\ tweets = 1
    /\ \A w \in Workers : wk[w].pc = "idle" /\ queue[w] = <<>>
    /\ GetCount(Today) = dailyTweetLimit

\* C29: every accepted post request, immediate or recurring, is persisted
\* before it is enqueued: no job waits in a queue, and no trigger is
\* registered, without a row of its own in the job store.
C29_PersistedBeforeEnqueued ==
    /\ \A w \in Workers : \A i \in DOMAIN queue[w] :
          /\ queue[w][i].post \in PostIds
          /\ posts[queue[w][i].post] # NoPost
    /\ \A id \in PostIds : repeat[id] # NoJob => posts[id] # NoPost

\* C22: delivery history is append-only: no operation (firing, retry, cancel,
\* startup or maintenance cleanup) modifies or deletes a saved record, so
\* every step leaves the records there were, in place, and at most adds some.
C22_HistoryAppendOnly ==
    [][/\ Len(history') >= Len(history)
       /\ SubSeq(history', 1, Len(history)) = history]_vars

\* C21: an immediate post request submitted while the daily quota is used up
\* is rejected with status 429 and no job is enqueued, whereas a schedule
\* request submitted then is not turned away for the quota.
C21_QuotaRejectsImmediateOnly ==
    [][(Answers /\ ~Malformed(req) /\ sent[UTCDay(now)] >= dailyTweetLimit)
          => IF req.route = "post"
             THEN resp'.status = 429 /\ queue' = queue
             ELSE resp'.status # 429]_vars

\* C25: at each scheduled firing the posted text is the literal text whenever
\* the schedule has one; the generator is called only when there is no literal
\* text, with customPrompt as its prompt, or with the default prompt when there
\* is no customPrompt either.
C25_LiteralTextPosted ==
    LET job == wk["sch"].job
    IN  /\ wk["sch"].pc = "generate" =>
              /\ job.text = Null
              /\ wk["sch"].prompt = IF job.custom_prompt # Null
                                    THEN job.custom_prompt
                                    ELSE "Share an interesting tech insight"
        /\ (wk["sch"].pc = "tweet" /\ job.text # Null) => wk["sch"].text = job.text

\* C26: every image file downloaded or uploaded for a delivery attempt is
\* removed on every exit path of that attempt: when the attempt ends, by
\* success or by a throw, no file of that attempt remains on disk.
C26_NoFileLeftBehind ==
    [][/\ (wk["imm"].pc # "idle" /\ wk'["imm"].pc = "idle")
            => wk["imm"].job.imageFile \notin files'
       /\ (wk["sch"].pc # "idle" /\ wk'["sch"].pc = "idle")
            => \A f \in files' : f[1] # "image"]_vars

\* C28: postTweet maps every remote failure to exactly one category and keeps
\* the error's code: 401 is Unauthorized, 403 Forbidden, 429 RateLimited,
\* missing or placeholder credentials Unconfigured, and anything else Generic
\* with the original message kept; one call makes one remote request at most.
C28_FailureCategories ==
    [][LET Category(r) ==
               IF credentials = "placeholder"
               THEN <<"Twitter API not configured. Please set Twitter API credentials in your .env file.">>
               ELSE CASE r.code = 401 ->
                           <<"Twitter API credentials are invalid. Please check your API keys and tokens.">>
                      [] r.code = 403 ->
                           <<"Twitter API access forbidden. Please check your app permissions.">>
                      [] r.code = 429 ->
                           <<"Twitter API rate limit exceeded. Please wait before posting again.">>
                      [] OTHER -> <<"Twitter API error: ">> \o r.message
       IN  \A w \in Workers :
              (wk[w].pc = "tweet" /\ wk'[w] # wk[w])
              => \/ wk'[w].pc = "incr" /\ tweets' = tweets + 1
                 \/ /\ wk'[w].pc = "catch"
                    /\ tweets' = tweets
                    /\ \E r \in RemoteErrors :
                          /\ wk'[w].error.code = r.code
                          /\ wk'[w].error.message = Category(r)]_vars

\* C30: an attempt that waits on a slow external call does not block unrelated
\* triggers: while one scheduled firing is in flight, a due firing of another
\* schedule can start its own attempt.
C30_UnrelatedFiringCanStart ==
    (/\ wk["sch"].pc # "idle"
     /\ queue["sch"] # <<>>
     /\ Head(queue["sch"]).post # wk["sch"].job.post)
    => ENABLED SchProcess

\* C34: the remaining quota a status query reports always equals the daily
\* limit minus the current day's counter, floored at 0: after each send the
\* next query reports one fewer, never a value that lags behind the counter.
C34_RemainingTracksCounter ==
    \A stale \in StaleChoices :
        getRateLimitStatus(stale).remaining =
            IF dailyTweetLimit - GetCount(Today) > 0
            THEN dailyTweetLimit - GetCount(Today) ELSE 0

\* C35: every retry of an immediate job that carries an uploaded image finds
\* the image file still there: an attempt that uploaded the image and then
\* failed at posting does not make the next attempt fail at the upload.
C35_RetryFindsImage ==
    wk["imm"].pc = "upload" => wk["imm"].job.imageFile \in files

\* C36: every scheduled post with status scheduled has a registered repeating
\* trigger: a schedule request whose enqueue step fails after the record was
\* created leaves no record in status scheduled that never fires.
C36_ScheduledHasTrigger ==
    \A id \in PostIds : posts[id].status = "scheduled" => repeat[id] # NoJob

\* C33: the statistics report todayTweets as the number of posts sent today,
\* totalTweets as the number of history records and scheduledTweets as the
\* number of scheduled posts in status scheduled; a failed attempt recorded
\* in history does not count as a post sent today. (The three zeros reported
\* when the database does not answer are let through.)
C33_StatsCountSentPosts ==
    [][(resp = NoResponse /\ resp'.view = "index"
            /\ resp'.stats # getTweetStats(FALSE))
          => /\ resp'.stats.todayTweets =
                    Cardinality({i \in DOMAIN history :
                        /\ history[i].status = "success"
                        /\ UTCDay(history[i].posted_at) = UTCDay(now)})
             /\ resp'.stats.totalTweets = Len(history)
             /\ resp'.stats.scheduledTweets =
                    Cardinality({id \in PostIds : posts[id].status = "scheduled"})]_vars

\* C39: the history endpoint returns at most limit records, most recent
\* first, starting at offset, and its hasMore flag is true exactly when a
\* further record exists beyond offset + limit.
C39_HistoryPage ==
    [][(resp = NoResponse /\ resp'.view = "history" /\ resp'.status = 200)
          => /\ Len(resp'.data) <= resp'.limit
             /\ \A i \in DOMAIN resp'.data :
                   /\ resp'.offset + i <= Len(history)
                   /\ resp'.data[i] = history[Len(history) + 1 - (resp'.offset + i)]
             /\ (Len(resp'.data) < resp'.limit)
                   => Len(resp'.data) = Len(history) - resp'.offset
                      \/ (Len(resp'.data) = 0 /\ Len(history) <= resp'.offset)
             /\ resp'.hasMore <=> (Len(history) > resp'.offset + resp'.limit)]_vars

\* C31: the text the generator returns is never longer than maxLength (280):
\* the cleaned text comes back unchanged when it fits, and otherwise cut to
\* exactly maxLength characters, the last three being the marker "...".
C31_GeneratedTextFits ==
    generated # NoOutput
    => LET cleaned == cleanTweetText(generated.raw, Len(generated.raw))
           text == generated.text
       IN  /\ Len(text) <= maxLength
           /\ IF Len(cleaned) <= maxLength
              THEN text = cleaned
              ELSE /\ Len(text) = maxLength
                   /\ SubSeq(text, maxLength - 2, maxLength) = <<".", ".", ".">>
                   /\ SubSeq(text, 1, maxLength - 3) = SubSeq(cleaned, 1, maxLength - 3)

\* a quoted answer longer than the limit has been cut
C31_Witness ==
    /\ Len(generated.raw) > maxLength + 3
    /\ Head(generated.raw) = "\""
    /\ Len(generated.text) = maxLength
    /\ generated.text[maxLength] = "."

\* C32: after any sequence of generations the generator's history holds at
\* most 20 texts, most recent first, and they are exactly the 20 (or fewer)
\* texts generated last; a generation that fails leaves the history as it was.
C32_HistoryBounded ==
    /\ [](/\ Len(previousTweets) = IF generations > maxHistory
                                    THEN maxHistory ELSE generations
          /\ \A i \in DOMAIN previousTweets :
                LET g == generations - i + 1
                IN  IF g >= 2
                    THEN previousTweets[i] = [k \in 1..(g - 1) |-> "x"]
                    ELSE Len(previousTweets[i]) <= maxLength)
    /\ [][generations' = generations => previousTweets' = previousTweets]_vars

\* more than 20 texts were generated, and then a generation failed
C32_Witness ==
    /\ generations > maxHistory
    /\ Len(previousTweets) = maxHistory
    /\ generated = NoOutput

\* ------------------------------------------------- the in-memory job queue
\* a job of the in-memory queue: the tweet it came from and how many times
\* a rate limit has put it back
Ticket(id, tries) == [id |-> id, tries |-> tries]

\* a processQueue that takes a job whether or not one is under way
ProcessQueueWithoutFlag(q) ==
    IF q = <<>>
    THEN /\ jobQueue' = q
         /\ UNCHANGED <<isProcessing, dequeued>>
    ELSE /\ isProcessing' = TRUE
         /\ jobQueue' = Tail(q)
         /\ dequeued' = Append(dequeued, [job |-> Head(q), outcome |-> "running"])

\* processQueue up to its first await, on the queue q its caller left: it
\* returns when a job is under way or nothing waits, else it raises the flag
\* and shifts the first job off the queue
processQueue(q) ==
    IF isProcessing \/ q = <<>>
    THEN /\ jobQueue' = q
         /\ UNCHANGED <<isProcessing, dequeued>>
    ELSE /\ isProcessing' = TRUE
         /\ jobQueue' = Tail(q)
         /\ dequeued' = Append(dequeued, [job |-> Head(q), outcome |-> "running"])

\* enqueueTweetJob, called at startup, by POST /schedule and by every
\* interval timer of scheduleTweetJob: push, then processQueue
enqueueTweetJob ==
    LET pushed == Len(SelectSeq(jobQueue, LAMBDA j : j.tries = 0))
                  + Len(SelectSeq(dequeued, LAMBDA d : d.job.tries = 0))
    IN  /\ pushed < MaxJobs
        /\ processQueue(Append(jobQueue, Ticket(pushed + 1, 0)))
        /\ UNCHANGED <<now, tz, redis, redisUp, rateLimitStatus, posts,
                       history, repeat, queue, wk, tweets, sent, submitted>>
        /\ UNCHANGED <<firings, runs, restarts, req, resp, credentials, files>>
        /\ UNCHANGED <<previousTweets, generated, generations, timers>>

\* a setTimeout callback runs: the re-poll that every processQueue leaves
\* behind, or the one that puts a rate-limited job back; timers of different
\* delays run in any order
Timeout ==
    \E i \in DOMAIN timers :
        /\ timers' = SubSeq(timers, 1, i - 1) \o SubSeq(timers, i + 1, Len(timers))
        /\ processQueue(IF timers[i].kind = "push"
                        THEN Append(jobQueue, timers[i].job) ELSE jobQueue)
        /\ UNCHANGED <<now, tz, redis, redisUp, rateLimitStatus, posts,
                       history, repeat, queue, wk, tweets, sent, submitted>>
        /\ UNCHANGED <<firings, runs, restarts, req, resp, credentials, files>>
        /\ UNCHANGED <<previousTweets, generated, generations>>

\* a run whose finally block leaves the flag up when the job failed
SettleFailedKeepsFlag ==
    \E i \in DOMAIN dequeued :
        /\ dequeued[i].outcome = "running"
        /\ \E outcome \in {"posted", "failed"} :
              /\ isProcessing' = (outcome = "failed")
              /\ dequeued' = [dequeued EXCEPT ![i].outcome = outcome]
              /\ timers' = Append(timers, [kind |-> "poll", job |-> Ticket(0, 0)])
        /\ UNCHANGED <<now, tz, redis, redisUp, rateLimitStatus, posts,
                       history, repeat, queue, wk, tweets, sent, submitted>>
        /\ UNCHANGED <<firings, runs, restarts, req, resp, credentials, files>>
        /\ UNCHANGED <<previousTweets, generated, generations, jobQueue>>

\* the rest of a processQueue run, once its external calls have returned:
\* the tweet went out and its history row is written (or not), or a rate
\* limit sets a timer that puts the job back, or an error marks the row
\* failed; the finally block then lowers the flag and sets the re-poll
Settle ==
    \E i \in DOMAIN dequeued :
        /\ dequeued[i].outcome = "running"
        /\ LET job == dequeued[i].job
               remembered == <<<<"G">>>> \o previousTweets
           IN  \E outcome \in {"posted", "failed"} \cup
                              (IF job.tries < MaxReschedules
                               THEN {"rescheduled"} ELSE {}) :
               \E wrote \in BOOLEAN, saved \in BOOLEAN :
                  /\ outcome # "failed" => wrote
                  /\ saved => outcome = "posted"
                  /\ previousTweets' =
                        IF ~wrote THEN previousTweets
                        ELSE IF Len(remembered) > MAX_HISTORY
                        THEN SubSeq(remembered, 1, MAX_HISTORY)
                        ELSE remembered
                  /\ history' =
                        IF saved
                        THEN Append(history, [text |-> <<"G">>, created_at |-> now])
                        ELSE history
                  /\ posts' =
                        IF outcome = "failed" /\ job.id \in PostIds
                        THEN IF posts[job.id] # NoPost
                             THEN [posts EXCEPT ![job.id].status = "failed"]
                             ELSE posts
                        ELSE posts
                  /\ timers' =
                        timers
                        \o (IF outcome = "rescheduled"
                            THEN <<[kind |-> "push",
                                    job |-> Ticket(job.id, job.tries + 1)]>>
                            ELSE <<>>)
                        \o <<[kind |-> "poll", job |-> Ticket(0, 0)]>>
                  /\ isProcessing' = FALSE
                  /\ dequeued' = [dequeued EXCEPT ![i].outcome = outcome]
        /\ UNCHANGED <<now, tz, redis, redisUp, rateLimitStatus, repeat, queue,
                       wk, tweets, sent, submitted, firings, runs, restarts>>
        /\ UNCHANGED <<req, resp, credentials, files, generated, generations>>
        /\ UNCHANGED jobQueue

NextMemory ==
    \/ enqueueTweetJob
    \/ Timeout
    \/ Settle

\* the event loop runs every callback that is due and, as long as each
\* external call returns, every run of processQueue reaches its finally block
SpecMemory ==
    InitRetry /\ [][NextMemory]_vars /\ WF_vars(Timeout) /\ WF_vars(Settle)

\* C37: the in-memory queue runs at most one job at a time and takes jobs in
\* the order they were pushed: no two runs of processQueue are under way
\* together, tweets pushed earlier are taken earlier, a job is taken only
\* from the head of the line, and nothing is taken while isProcessing is
\* set, whatever the order of enqueue calls, timers and finishing runs.
C37_OneJobAtATime ==
    /\ [](/\ Cardinality({i \in DOMAIN dequeued :
                            dequeued[i].outcome = "running"}) <= 1
          /\ \A i, k \in DOMAIN dequeued :
                (i < k /\ dequeued[i].job.tries = 0 /\ dequeued[k].job.tries = 0)
                    => dequeued[i].job.id < dequeued[k].job.id)
    /\ [][Len(dequeued') > Len(dequeued) =>
             /\ ~isProcessing
             /\ Len(dequeued') = Len(dequeued) + 1
             /\ jobQueue # <<>> =>
                   /\ dequeued'[Len(dequeued')].job = Head(jobQueue)
                   /\ Tail(jobQueue) = SubSeq(jobQueue', 1, Len(jobQueue) - 1)]_vars

\* two jobs were taken one after the other, the second is under way, a third
\* waits behind it and a timer is pending
C37_Witness ==
    /\ Len(dequeued) >= 2
    /\ dequeued[1].outcome # "running"
    /\ dequeued[Len(dequeued)].outcome = "running"
    /\ jobQueue # <<>>
    /\ timers # <<>>

\* C38: as long as every run of processQueue returns, each job pushed onto
\* the in-memory queue is eventually taken and its run finished, and
\* isProcessing is down again after every job, whether it was posted, failed
\* or was put off by a rate limit.
C38_EveryJobProcessed ==
    /\ \A id \in 1..MaxJobs, tries \in 0..MaxReschedules :
          (\E n \in DOMAIN jobQueue : jobQueue[n] = Ticket(id, tries))
          ~> (\E i \in DOMAIN dequeued :
                 /\ dequeued[i].job = Ticket(id, tries)
                 /\ dequeued[i].outcome # "running")
    /\ [](isProcessing =>
             \E i \in DOMAIN dequeued : dequeued[i].outcome = "running")

\* a job failed, another was put off by a rate limit and came back, and a job
\* pushed after them went out
C38_Witness ==
    /\ ~isProcessing
    /\ \E i, k \in DOMAIN dequeued :
          /\ i < k
          /\ dequeued[i].outcome = "failed"
          /\ dequeued[k].outcome = "posted"
    /\ \E i, k \in DOMAIN dequeued :
          /\ dequeued[i].outcome = "rescheduled"
          /\ dequeued[k].job = Ticket(dequeued[i].job.id, dequeued[i].job.tries + 1)
          /\ dequeued[k].outcome # "running"

====
